---- MODULE Spec2Model ----
(***************************************************************************)
(* Order service: the placement workflow (PlaceOrderHandler), the status   *)
(* state machine (UpdateOrderStatusHandler) and the read of one order      *)
(* (GetOrderDetailsHandler) over the two package-level maps orders and     *)
(* orderItems, with the product catalog behind the gRPC client as an       *)
(* external, fallible service.                                             *)
(*                                                                         *)
(* net/http runs every request in its own goroutine, so a handler is       *)
(* modelled as a sequence of steps, one per access to shared state (the    *)
(* two maps, the catalog); what a handler computes on its locals between   *)
(* two such accesses belongs to the step of the access before it.          *)
(* Spec interleaves the steps of the handlers in Slots; SpecSeq runs one   *)
(* request at a time, from its start to its response; SpecLife does the    *)
(* same for one order and the status updates of its whole life.            *)
(*                                                                         *)
(* Times are integers: the clock reads the number of requests received so  *)
(* far, and 0 stands for the empty string of a timestamp never set.        *)
(* Prices are whole multiples of 10, so that the 10% discount is exact.    *)
(***************************************************************************)
EXTENDS Integers, Sequences, FiniteSets, TLC

\* The number of requests the service receives in a run of Spec or SpecSeq.
MaxRequests == 3

\* The number of requests the service receives in a run of SpecLife.
MaxLifeRequests == 6

\* The goroutines that serve requests at the same time.
Slots == {"h1", "h2"}

VARIABLES
    orders,      \* map[string]Order: order id -> Order
    orderItems,  \* map[string][]OrderItem: order id -> line items
    stock,       \* the catalog's quantity per product (the remote service's state)
    now,         \* the wall clock
    uuidSeq,     \* how many ids uuid.New() has handed out
    h,           \* per goroutine: the request it serves, its position and locals
    crashed      \* the runtime has stopped the process (fatal error)

vars == <<orders, orderItems, stock, now, uuidSeq, h, crashed>>

----------------------------------------------------------------------------
(* The catalog.                                                            *)

Catalog ==
    [ p1 |-> [Price |-> 10, Category |-> "premium"],
      p2 |-> [Price |-> 20, Category |-> "Premium"],
      p3 |-> [Price |-> 30, Category |-> "PREMIUM"],
      s1 |-> [Price |-> 10, Category |-> "standard"] ]

Products == DOMAIN Catalog

InitialStock == [ p1 |-> 3, p2 |-> 3, p3 |-> 3, s1 |-> 10 ]

\* strings.ToLower on the strings of the model.
ToLower(s) ==
    CASE s = "P1" -> "p1"
      [] s = "Premium" -> "premium"
      [] s = "PREMIUM" -> "premium"
      [] OTHER -> s

\* conn.GetProductDetails: the ways one call can end. A product of the
\* catalog is returned unless the call itself fails; any other id is an error.
GetProductDetailsOutcomes(productId) ==
    IF productId \in Products THEN {"ok", "unavailable"}
                              ELSE {"notfound", "unavailable"}

\* conn.UpdateProductQuantity: the ways one call can end.
UpdateProductQuantityOutcomes(productId) ==
    IF productId \in Products THEN {"ok", "error"} ELSE {"error"}

----------------------------------------------------------------------------
(* Requests.                                                               *)

Item(p, q) == [ProductId |-> p, Quantity |-> q]

PlaceInputs ==
    { << >>,
      << Item("p1", 1) >>,
      << Item("s1", 2) >>,
      << Item("s1", 10) >>,
      << Item("s1", 0) >>,
      << Item("s1", 11) >>,
      << Item("", 1) >>,
      << Item("p1", 3), Item("p2", 3) >>,
      << Item("p1", 1), Item("P1", 1) >>,
      << Item("s1", 1), Item("zz", 1) >>,
      << Item("s1", 1), Item("p1", 4) >>,
      << Item("p1", 1), Item("p2", 1), Item("p3", 1) >>,
      << Item("p1", 1), Item("p2", 1), Item("s1", 1) >>,
      << Item("s1", 1), Item("p1", 1), Item("p2", 1), Item("p3", 1) >> }

\* The placements that Spec interleaves.
ConcPlaceInputs ==
    { << Item("p1", 3) >>,
      << Item("p1", 1), Item("p2", 1) >> }

OrderPlaced == "placed"
OrderDispatched == "dispatched"
OrderCompleted == "completed"
OrderReturned == "returned"
OrderCancelled == "cancelled"

Statuses == {OrderPlaced, OrderDispatched, OrderCompleted, OrderReturned, OrderCancelled}

StatusInputs == Statuses \cup {"shipped"}

\* The target statuses that Spec interleaves.
ConcStatusInputs == {OrderDispatched, OrderCompleted, OrderCancelled}

NoOrder ==
    [ID |-> 0, Discount |-> 0, Amount |-> 0, Status |-> "",
     DispatchedAt |-> 0, CreatedAt |-> 0, UpdatedAt |-> 0]

\* CreateOrderResponse before any field is set.
NoBody ==
    [ID |-> 0, Items |-> << >>, Discount |-> 0, Amount |-> 0, Status |-> "",
     DispatchedAt |-> 0, CreatedAt |-> 0, UpdatedAt |-> 0]

\* What a handler wrote to its http.ResponseWriter: the status code, the
\* message, the product id (ref) or order id (oid) the message names, and the
\* JSON body of a 200. cause records why the catalog call behind an error failed.
NoResp == [code |-> 0, msg |-> "", ref |-> "", oid |-> 0, cause |-> "", body |-> NoBody]

IdleSlot ==
    [op |-> "idle", pc |-> "done", items |-> << >>, i |-> 0, o |-> NoOrder,
     oItems |-> << >>, pq |-> 0, orderId |-> 0, status |-> "", resp |-> NoResp,
     at |-> 0, cur |-> "", nGet |-> 0, nSet |-> 0, wrote |-> FALSE]

\* w.WriteHeader(code); w.Write(msg): the handler returns.
Respond(slot, code, msg, ref, cause) ==
    [slot EXCEPT !.pc = "done", !.pq = 0, !.oItems = << >>,
                 !.resp = [code |-> code, msg |-> msg, ref |-> ref, oid |-> 0,
                           cause |-> cause, body |-> NoBody]]

RespondOrderUnnamed(slot, code, msg, oid) ==
    [slot EXCEPT !.pc = "done", !.pq = 0, !.oItems = << >>,
                 !.resp = [code |-> code, msg |-> "order does not exist", ref |-> "",
                           oid |-> 0, cause |-> "", body |-> NoBody]]

RespondOrder(slot, code, msg, oid) ==
    [slot EXCEPT !.pc = "done", !.pq = 0, !.oItems = << >>,
                 !.resp = [code |-> code, msg |-> msg, ref |-> "", oid |-> oid,
                           cause |-> "", body |-> NoBody]]

RespondOK(slot, body) ==
    [slot EXCEPT !.pc = "done", !.pq = 0, !.oItems = << >>,
                 !.resp = [code |-> 200, msg |-> "", ref |-> "", oid |-> 0,
                           cause |-> "", body |-> body]]

----------------------------------------------------------------------------
(* CreateOrderRequest.Validate                                             *)

\* Some item's lower-cased product id equals that of an earlier item.
\* Validate with the ids compared as written, not lower-cased.
RepeatedCaseSensitive(items) ==
    \E j \in 1..Len(items) : \E k \in 1..(j - 1) :
        items[j].ProductId = items[k].ProductId

Repeated(items) ==
    \E j \in 1..Len(items) : \E k \in 1..(j - 1) :
        ToLower(items[j].ProductId) = ToLower(items[k].ProductId)

\* Validate with the lower quantity bound off by one.
BadItemAllowsZero(item) ==
    item.ProductId = "" \/ ~(item.Quantity >= 0 /\ item.Quantity <= 10)

BadItem(item) ==
    item.ProductId = "" \/ ~(item.Quantity > 0 /\ item.Quantity <= 10)

Validate(items) ==
    IF Len(items) = 0 THEN "items not provided"
    ELSE IF Repeated(items) THEN "product id is repeated"
    ELSE IF \E k \in 1..Len(items) : BadItem(items[k])
         THEN LET k == CHOOSE k \in 1..Len(items) :
                           BadItem(items[k]) /\ \A j \in 1..(k - 1) : ~BadItem(items[j])
              IN  IF items[k].ProductId = "" THEN "invalid product id"
                  ELSE "product quantiy must be greater than 0 and less than equal to 10"
    ELSE "ok"

----------------------------------------------------------------------------
(* PlaceOrderHandler                                                       *)

RECURSIVE OrderAmount(_)
\* orderAmount after the pricing loop over items.
OrderAmount(items) ==
    IF Len(items) = 0 THEN 0
    ELSE OrderAmount(SubSeq(items, 1, Len(items) - 1))
         + Catalog[items[Len(items)].ProductId].Price * items[Len(items)].Quantity

\* The premium count with the category compared as written, not lower-cased.
NumberOfPremiumProductsCaseSensitive(items) ==
    Cardinality({k \in 1..Len(items) : Catalog[items[k].ProductId].Category = "premium"})

\* numberOfPremiumProducts after the pricing loop over items.
NumberOfPremiumProducts(items) ==
    Cardinality({k \in 1..Len(items) :
                    ToLower(Catalog[items[k].ProductId].Category) = "premium"})

\* The discount step: o.Discount and o.Amount from the loop's totals.
Discounted(o, orderAmount, numberOfPremiumProducts) ==
    IF numberOfPremiumProducts >= 3
    THEN [o EXCEPT !.Discount = 10,
                   !.Amount = orderAmount - (orderAmount * 10) \div 100]
    ELSE [o EXCEPT !.Amount = orderAmount]

\* oItems: one OrderItem per request item, in order.
MakeOrderItems(items, id) ==
    [k \in 1..Len(items) |->
        [ProductId |-> items[k].ProductId,
         ProductQuantity |-> items[k].Quantity,
         OrderId |-> id]]

\* A request arrives at goroutine s: the clock has moved on since the last one.
Accept(s) ==
    /\ ~crashed
    /\ h[s].pc = "done"
    /\ now' = now + 1

\* Every goroutine has answered its request.
Quiet == \A t \in Slots : h[t].pc = "done"

\* The orders map after orders[o.ID] = o.
Put(map, key, value) == (key :> value) @@ map

\* Lines 141-157: decode and validate the request.
StartPlace(s, items) ==
    /\ Accept(s)
    /\ LET slot == [IdleSlot EXCEPT !.op = "place", !.items = items, !.at = now + 1]
           v == Validate(items)
       IN  h' = [h EXCEPT ![s] =
                    IF v # "ok" THEN Respond(slot, 400, v, "", "")
                    ELSE [slot EXCEPT !.pc = "check", !.i = 1]]
    /\ UNCHANGED <<orders, orderItems, stock, uuidSeq, crashed>>

\* The Order with one fixed id in place of a fresh one.
NewOrderReusesId(id, currentTime) ==
    [NoOrder EXCEPT !.ID = 1, !.Status = OrderPlaced,
                    !.CreatedAt = currentTime, !.UpdatedAt = currentTime]

\* The Order of lines 180-186, with a fresh id and the current time.
NewOrder(id, currentTime) ==
    [NoOrder EXCEPT !.ID = id, !.Status = OrderPlaced,
                    !.CreatedAt = currentTime, !.UpdatedAt = currentTime]

\* The inventory check with <= for <.
NotEnoughInventoryOffByOne(available, quantity) == available <= quantity

\* Line 171: the inventory does not hold the quantity asked for.
NotEnoughInventory(available, quantity) == available < quantity

\* Lines 159-177, one item: the product must exist and have enough inventory.
\* After the last item, lines 180-186 create the order.
CheckItem(s) ==
    /\ ~crashed
    /\ h[s].op = "place" /\ h[s].pc = "check"
    /\ LET item == h[s].items[h[s].i]
           slot == [h[s] EXCEPT !.nGet = @ + 1]
       IN  \E out \in GetProductDetailsOutcomes(item.ProductId) :
             /\ IF out # "ok"
                THEN /\ h' = [h EXCEPT ![s] =
                               Respond(slot, 404, "product with id: %v does not exist",
                                       item.ProductId, out)]
                     /\ UNCHANGED uuidSeq
                ELSE IF NotEnoughInventory(stock[item.ProductId], item.Quantity)
                THEN /\ h' = [h EXCEPT ![s] =
                               Respond(slot, 404, "product with id: %v does not have enough inventory",
                                       item.ProductId, "")]
                     /\ UNCHANGED uuidSeq
                ELSE IF h[s].i < Len(h[s].items)
                THEN /\ h' = [h EXCEPT ![s] = [slot EXCEPT !.i = @ + 1]]
                     /\ UNCHANGED uuidSeq
                ELSE /\ h' = [h EXCEPT ![s] =
                               [slot EXCEPT !.pc = "price", !.i = 0,
                                            !.o = NewOrder(uuidSeq + 1, now)]]
                     /\ uuidSeq' = uuidSeq + 1
    /\ UNCHANGED <<orders, orderItems, stock, now, crashed>>

\* Lines 188-226: the pricing loop and the discount. The loop reads only the
\* price and category of each product, which no request changes, so its calls
\* are one step: they all succeed, or the k-th is the first to fail.
PriceItems(s) ==
    /\ ~crashed
    /\ h[s].op = "place" /\ h[s].pc = "price"
    /\ LET items == h[s].items
       IN  \E k \in 0..Len(items) :
             /\ \A j \in 1..(IF k = 0 THEN Len(items) ELSE k - 1) :
                    "ok" \in GetProductDetailsOutcomes(items[j].ProductId)
             /\ IF k = 0
                THEN h' = [h EXCEPT ![s] =
                            [@ EXCEPT !.pc = "write_orders",
                                      !.nGet = @ + Len(items),
                                      !.o = Discounted(h[s].o, OrderAmount(items),
                                                       NumberOfPremiumProducts(items)),
                                      !.oItems = MakeOrderItems(items, h[s].o.ID)]]
                ELSE \E out \in GetProductDetailsOutcomes(items[k].ProductId) \ {"ok"} :
                       h' = [h EXCEPT ![s] =
                              Respond([@ EXCEPT !.nGet = @ + k], 404,
                                      "product with id: %v does not exist while preparing order",
                                      items[k].ProductId, out)]
    /\ UNCHANGED <<orders, orderItems, stock, now, uuidSeq, crashed>>

\* The order left out of the map before the inventory is adjusted.
WriteOrderDeferred(s) ==
    /\ ~crashed
    /\ h[s].op = "place" /\ h[s].pc = "write_orders"
    /\ h' = [h EXCEPT ![s] = [@ EXCEPT !.pc = "write_items", !.wrote = TRUE]]
    /\ UNCHANGED <<orders, orderItems, stock, now, uuidSeq, crashed>>

\* Line 229: orders[o.ID] = o.
WriteOrder(s) ==
    /\ ~crashed
    /\ h[s].op = "place" /\ h[s].pc = "write_orders"
    /\ orders' = Put(orders, h[s].o.ID, h[s].o)
    /\ h' = [h EXCEPT ![s] = [@ EXCEPT !.pc = "write_items", !.wrote = TRUE]]
    /\ UNCHANGED <<orderItems, stock, now, uuidSeq, crashed>>

\* Line 230: orderItems[o.ID] = oItems.
WriteItems(s) ==
    /\ ~crashed
    /\ h[s].op = "place" /\ h[s].pc = "write_items"
    /\ orderItems' = Put(orderItems, h[s].o.ID, h[s].oItems)
    /\ h' = [h EXCEPT ![s] = [@ EXCEPT !.pc = "adjust_get", !.i = 1]]
    /\ UNCHANGED <<orders, stock, now, uuidSeq, crashed>>

\* Lines 236-242: re-read the product before adjusting its quantity.
AdjustGet(s) ==
    /\ ~crashed
    /\ h[s].op = "place" /\ h[s].pc = "adjust_get"
    /\ LET item == h[s].items[h[s].i]
           slot == [h[s] EXCEPT !.nGet = @ + 1]
       IN  \E out \in GetProductDetailsOutcomes(item.ProductId) :
             /\ h' = [h EXCEPT ![s] =
                    IF out # "ok"
                    THEN Respond(slot, 404,
                                 "product with id: %v does not exist while updating product quantity in the order inventory",
                                 item.ProductId, out)
                    ELSE [slot EXCEPT !.pc = "adjust_set", !.pq = stock[item.ProductId]]]
    /\ UNCHANGED <<orders, orderItems, stock, now, uuidSeq, crashed>>

\* The failed call reported for the first item of the request.
AfterFailedUpdateNamesFirst(slot, productId) ==
    Respond(slot, 500, "inventory for product with id: %v could not be updated",
            slot.items[1].ProductId, "")

\* What the failed UpdateProductQuantity call of lines 243-248 leaves behind.
AfterFailedUpdate(slot, productId) ==
    Respond(slot, 500, "inventory for product with id: %v could not be updated", productId, "")

\* Lines 243-248: set the product's quantity to the one read minus the one ordered.
AdjustSet(s) ==
    /\ ~crashed
    /\ h[s].op = "place" /\ h[s].pc = "adjust_set"
    /\ LET item == h[s].items[h[s].i]
       IN  \E out \in UpdateProductQuantityOutcomes(item.ProductId) :
             /\ IF out # "ok"
                THEN /\ h' = [h EXCEPT ![s] = AfterFailedUpdate(h[s], item.ProductId)]
                     /\ UNCHANGED stock
                ELSE /\ stock' = [stock EXCEPT ![item.ProductId] = h[s].pq - item.Quantity]
                     /\ h' = [h EXCEPT ![s] =
                               IF h[s].i < Len(h[s].items)
                               THEN [@ EXCEPT !.pc = "adjust_get", !.i = @ + 1,
                                              !.pq = 0, !.nSet = @ + 1]
                               ELSE [@ EXCEPT !.pc = "project", !.i = 0,
                                              !.pq = 0, !.nSet = @ + 1]]
    /\ UNCHANGED <<orders, orderItems, now, uuidSeq, crashed>>

----------------------------------------------------------------------------
(* GetOrderItemsDetailsList and the responses built from it                *)

\* orderItems[orderId]: the nil slice when the map has no such key.
ItemsOf(orderId) ==
    IF orderId \in DOMAIN orderItems THEN orderItems[orderId] ELSE << >>

\* The list returned when every catalog call succeeds.
OrderItemsDetailsList(its) ==
    [k \in 1..Len(its) |->
        [ID |-> its[k].ProductId,
         Category |-> Catalog[its[k].ProductId].Category,
         Price |-> Catalog[its[k].ProductId].Price,
         Quantity |-> its[k].ProductQuantity]]

\* Lines 253-260: the response of a placement (DispatchedAt is not copied).
PlaceResponse(o, its) ==
    [NoBody EXCEPT !.ID = o.ID, !.Discount = o.Discount, !.Amount = o.Amount,
                   !.Status = o.Status, !.CreatedAt = o.CreatedAt,
                   !.UpdatedAt = o.UpdatedAt, !.Items = OrderItemsDetailsList(its)]

\* Lines 333-341: the response of a read.
DetailsResponse(o, its) ==
    [NoBody EXCEPT !.ID = o.ID, !.Discount = o.Discount, !.Amount = o.Amount,
                   !.Status = o.Status, !.DispatchedAt = o.DispatchedAt,
                   !.CreatedAt = o.CreatedAt, !.UpdatedAt = o.UpdatedAt,
                   !.Items = OrderItemsDetailsList(its)]

\* Lines 453-460: the response of a status update (Discount is not copied).
UpdateResponse(o, its) ==
    [NoBody EXCEPT !.ID = o.ID, !.Amount = o.Amount,
                   !.Status = o.Status, !.DispatchedAt = o.DispatchedAt,
                   !.CreatedAt = o.CreatedAt, !.UpdatedAt = o.UpdatedAt,
                   !.Items = OrderItemsDetailsList(its)]

\* GetOrderItemsDetailsList(o.ID) and the end of the handler: the list is read
\* from orderItems once, and the catalog calls read only what no request
\* changes, so they are one step: all succeed, or the k-th is the first to fail.
Project(s, op) ==
    /\ ~crashed
    /\ h[s].op = op /\ h[s].pc = "project"
    /\ LET its == ItemsOf(h[s].o.ID)
       IN  \E k \in 0..Len(its) :
             /\ \A j \in 1..(IF k = 0 THEN Len(its) ELSE k - 1) :
                    "ok" \in GetProductDetailsOutcomes(its[j].ProductId)
             /\ IF k = 0
                THEN h' = [h EXCEPT ![s] =
                            RespondOK([@ EXCEPT !.nGet = @ + Len(its)],
                                      CASE op = "place" -> PlaceResponse(h[s].o, its)
                                        [] op = "update" -> UpdateResponse(h[s].o, its)
                                        [] OTHER -> DetailsResponse(h[s].o, its))]
                ELSE \E out \in GetProductDetailsOutcomes(its[k].ProductId) \ {"ok"} :
                       h' = [h EXCEPT ![s] =
                              Respond([@ EXCEPT !.nGet = @ + k], 500,
                                      "product with id: %v, does not exist",
                                      its[k].ProductId, out)]
    /\ UNCHANGED <<orders, orderItems, stock, now, uuidSeq, crashed>>

\* Lines 252-278.
PlaceProject(s) == Project(s, "place")

----------------------------------------------------------------------------
(* UpdateOrderStatusHandler                                                *)

\* UpdateOrderStatusRequest.Validate
ValidateStatus(status) ==
    IF status \in Statuses THEN "ok" ELSE "invalid order status"

\* orderStatusMap[status]; 0 for a key the map does not hold.
orderStatusMap(status) ==
    CASE status = OrderPlaced -> 1
      [] status = OrderDispatched -> 2
      [] status = OrderCompleted -> 3
      [] status = OrderReturned -> 4
      [] status = OrderCancelled -> 5
      [] OTHER -> 0

\* The switch without its case for Completed.
TransitionVerdictNoCompletedCase(currentOrderStatusRank, newOrderStatusRank) ==
    IF newOrderStatusRank <= currentOrderStatusRank
    THEN "order status can be updated to a lower or the same status"
    ELSE IF newOrderStatusRank = 4 /\ currentOrderStatusRank # 3
    THEN "order cannot be returned until it is completed"
    ELSE IF newOrderStatusRank = 5 /\ currentOrderStatusRank > 2
    THEN "order cannot be cancelled once it is completed or returned"
    ELSE "ok"

\* The switch without its case for Cancelled.
TransitionVerdictNoCancelledCase(currentOrderStatusRank, newOrderStatusRank) ==
    IF newOrderStatusRank <= currentOrderStatusRank
    THEN "order status can be updated to a lower or the same status"
    ELSE IF newOrderStatusRank = 3 /\ currentOrderStatusRank # 2
    THEN "order cannot be completed until it is dispatched"
    ELSE IF newOrderStatusRank = 4 /\ currentOrderStatusRank # 3
    THEN "order cannot be returned until it is completed"
    ELSE "ok"

\* The switch of lines 416-440 on the two ranks: the message of the case that
\* rejects, or "ok" when none does.
TransitionVerdict(currentOrderStatusRank, newOrderStatusRank) ==
    IF newOrderStatusRank <= currentOrderStatusRank
    THEN "order status can be updated to a lower or the same status"
    ELSE IF newOrderStatusRank = 3 /\ currentOrderStatusRank # 2
    THEN "order cannot be completed until it is dispatched"
    ELSE IF newOrderStatusRank = 4 /\ currentOrderStatusRank # 3
    THEN "order cannot be returned until it is completed"
    ELSE IF newOrderStatusRank = 5 /\ currentOrderStatusRank > 2
    THEN "order cannot be cancelled once it is completed or returned"
    ELSE "ok"

\* DispatchedAt stamped on every accepted request.
UpdatedStampsAlways(o, status, currentTime) ==
    [o EXCEPT !.Status = status, !.DispatchedAt = currentTime]

\* Lines 442-446: the local copy of the order after an accepted request.
Updated(o, status, currentTime) ==
    [o EXCEPT !.Status = status,
              !.DispatchedAt = IF status = OrderDispatched THEN currentTime ELSE @]

\* Lines 377-395: decode and validate the request.
StartUpdate(s, orderId, status) ==
    /\ Accept(s)
    /\ LET slot == [IdleSlot EXCEPT !.op = "update", !.orderId = orderId,
                                    !.status = status, !.at = now + 1]
           v == ValidateStatus(status)
       IN  h' = [h EXCEPT ![s] =
                    IF v # "ok" THEN Respond(slot, 400, v, "", "")
                    ELSE [slot EXCEPT !.pc = "read"]]
    /\ UNCHANGED <<orders, orderItems, stock, uuidSeq, crashed>>

\* Lines 397-446: read the order, decide the transition, change the local copy.
UpdateRead(s) ==
    /\ ~crashed
    /\ h[s].op = "update" /\ h[s].pc = "read"
    /\ h' = [h EXCEPT ![s] =
              IF h[s].orderId \notin DOMAIN orders
              THEN RespondOrder(@, 404, "order with id: %v does not exist", h[s].orderId)
              ELSE LET o == orders[h[s].orderId]
                       v == TransitionVerdict(orderStatusMap(o.Status),
                                              orderStatusMap(h[s].status))
                   IN  IF v # "ok"
                       THEN Respond([@ EXCEPT !.cur = o.Status], 400, v, "", "")
                       ELSE [@ EXCEPT !.pc = "write", !.cur = o.Status,
                                      !.o = Updated(o, h[s].status, now)]]
    /\ UNCHANGED <<orders, orderItems, stock, now, uuidSeq, crashed>>

\* Line 450: orders[o.ID] = o.
UpdateWrite(s) ==
    /\ ~crashed
    /\ h[s].op = "update" /\ h[s].pc = "write"
    /\ orders' = Put(orders, h[s].o.ID, h[s].o)
    /\ h' = [h EXCEPT ![s] = [@ EXCEPT !.pc = "project", !.wrote = TRUE]]
    /\ UNCHANGED <<orderItems, stock, now, uuidSeq, crashed>>

\* Lines 452-479.
UpdateProject(s) == Project(s, "update")

----------------------------------------------------------------------------
(* GetOrderDetailsHandler                                                  *)

\* Lines 318-320.
StartGet(s, orderId) ==
    /\ Accept(s)
    /\ h' = [h EXCEPT ![s] =
              [IdleSlot EXCEPT !.op = "get", !.pc = "read", !.orderId = orderId,
                               !.at = now + 1]]
    /\ UNCHANGED <<orders, orderItems, stock, uuidSeq, crashed>>

\* Lines 322-330.
GetRead(s) ==
    /\ ~crashed
    /\ h[s].op = "get" /\ h[s].pc = "read"
    /\ h' = [h EXCEPT ![s] =
              IF h[s].orderId \notin DOMAIN orders
              THEN RespondOrder(@, 404, "order with id: %v does not exist", h[s].orderId)
              ELSE [@ EXCEPT !.pc = "project", !.o = orders[h[s].orderId]]]
    /\ UNCHANGED <<orders, orderItems, stock, now, uuidSeq, crashed>>

\* Lines 332-360.
GetProject(s) == Project(s, "get")

----------------------------------------------------------------------------
(* The maps are plain Go maps with no lock. Two goroutines that are about  *)
(* to touch the same map, one of them to write it, race: the accesses may  *)
(* run one after the other, in either order (the steps above), or the      *)
(* runtime may find them overlapping and stop the process with "fatal      *)
(* error: concurrent map writes" (or "... read and map write").            *)

WritesOrders(slot) ==
    \/ slot.op = "place" /\ slot.pc = "write_orders"
    \/ slot.op = "update" /\ slot.pc = "write"

TouchesOrders(slot) ==
    \/ WritesOrders(slot)
    \/ slot.op \in {"update", "get"} /\ slot.pc = "read"

WritesOrderItems(slot) == slot.op = "place" /\ slot.pc = "write_items"

TouchesOrderItems(slot) == WritesOrderItems(slot) \/ slot.pc = "project"

MapRaceFatal ==
    /\ ~crashed
    /\ \E s \in Slots : \E t \in Slots \ {s} :
          \/ WritesOrders(h[s]) /\ TouchesOrders(h[t])
          \/ WritesOrderItems(h[s]) /\ TouchesOrderItems(h[t])
    /\ crashed' = TRUE
    /\ UNCHANGED <<orders, orderItems, stock, now, uuidSeq, h>>

----------------------------------------------------------------------------

Init ==
    /\ orders = << >>
    /\ orderItems = << >>
    /\ stock = InitialStock
    /\ now = 0
    /\ uuidSeq = 0
    /\ h = [s \in Slots |-> IdleSlot]
    /\ crashed = FALSE

\* The order ids a request can name: those in the store and one that is not.
OrderIdInputs == DOMAIN orders \cup {0}

PlaceStep(s) ==
    \/ CheckItem(s)
    \/ PriceItems(s)
    \/ WriteOrder(s)
    \/ WriteItems(s)
    \/ AdjustGet(s)
    \/ AdjustSet(s)
    \/ PlaceProject(s)

UpdateStep(s) ==
    \/ UpdateRead(s)
    \/ UpdateWrite(s)
    \/ UpdateProject(s)

GetStep(s) ==
    \/ GetRead(s)
    \/ GetProject(s)

Step(s) == PlaceStep(s) \/ UpdateStep(s) \/ GetStep(s)

\* The goroutine that takes the next request: which one it is makes no
\* difference, so it is h1 whenever h1 is free.
Free(s) == s = "h1" \/ h["h1"].pc # "done"

\* Requests served concurrently, one goroutine each.
Next ==
    \/ /\ now < MaxRequests
       /\ \E s \in Slots : \E items \in ConcPlaceInputs : Free(s) /\ StartPlace(s, items)
    \/ /\ now < MaxRequests
       /\ \E s \in Slots : \E id \in OrderIdInputs : \E st \in ConcStatusInputs :
             Free(s) /\ StartUpdate(s, id, st)
    \/ /\ now < MaxRequests
       /\ \E s \in Slots : \E id \in OrderIdInputs : Free(s) /\ StartGet(s, id)
    \/ \E s \in Slots : Step(s)
    \/ MapRaceFatal

Spec == Init /\ [][Next]_vars

\* Requests served one at a time: the next one arrives after the response.
NextSeq ==
    \/ /\ Quiet /\ now < MaxRequests
       /\ \E items \in PlaceInputs : StartPlace("h1", items)
    \/ /\ Quiet /\ now < MaxRequests
       /\ \E id \in OrderIdInputs : \E st \in StatusInputs : StartUpdate("h1", id, st)
    \/ /\ Quiet /\ now < MaxRequests
       /\ \E id \in OrderIdInputs : StartGet("h1", id)
    \/ \E s \in Slots : Step(s)

SpecSeq == Init /\ [][NextSeq]_vars

\* The placement of SpecLife: scenario A of the design's test list.
LifePlaceInput == << Item("s1", 2) >>

\* One order and the status updates of its life, one request at a time.
NextLife ==
    \/ /\ Quiet /\ now < MaxLifeRequests /\ uuidSeq = 0
       /\ StartPlace("h1", LifePlaceInput)
    \/ /\ Quiet /\ now < MaxLifeRequests
       /\ \E id \in OrderIdInputs : \E st \in StatusInputs : StartUpdate("h1", id, st)
    \/ \E s \in Slots : PlaceStep(s) \/ UpdateStep(s)

SpecLife == Init /\ [][NextLife]_vars

\* The steps of a handler that wait for an answer of the catalog.
CatalogCalls == {"check", "price", "adjust_get", "adjust_set", "project"}

\* client.go lines 39 and 87: the call is made with context.Background(),
\* which has no deadline, so a catalog that does not answer keeps the
\* goroutine inside the call.
CatalogStalls(s) ==
    /\ ~crashed
    /\ h[s].pc \in CatalogCalls
    /\ h' = [h EXCEPT ![s] = [@ EXCEPT !.pc = "stalled"]]
    /\ UNCHANGED <<orders, orderItems, stock, now, uuidSeq, crashed>>

\* Requests served one at a time by a catalog that may stop answering.
NextStall ==
    \/ NextSeq
    \/ \E s \in Slots : CatalogStalls(s)

SpecStall == Init /\ [][NextStall]_vars

----------------------------------------------------------------------------
(* The status state machine: C1, C2, C3.                                   *)

\* The rank rule of the design, on ranks c (current) and n (requested).
RankRuleAllows(c, n) ==
    /\ ~(n <= c)
    /\ (n = 3 => c = 2)
    /\ (n = 4 => c = 3)
    /\ (n = 5 => ~(c > 2))

\* The numeric rank the design gives each status.
RankOf(status) ==
    CASE status = "placed" -> 1
      [] status = "dispatched" -> 2
      [] status = "completed" -> 3
      [] status = "returned" -> 4
      [] status = "cancelled" -> 5

\* The update request of goroutine s has passed the rank check.
UpdateAccepted(s) ==
    /\ h[s].op = "update"
    /\ h[s].pc \in {"write", "project"} \/ (h[s].pc = "done" /\ h[s].wrote)

\* The update request of goroutine s was turned down by the rank check.
UpdateRejected(s) ==
    /\ h[s].op = "update" /\ h[s].pc = "done" /\ h[s].cur # ""
    /\ h[s].resp.code = 400 /\ ~h[s].wrote

\* C1: an update-status request that found its order is accepted exactly when
\* the rank rule allows the pair (status read from the store, status
\* requested), and is otherwise rejected with a 400 and no write.
C1_AcceptMatchesRankRule ==
    \A s \in Slots :
        (h[s].op = "update" /\ h[s].cur # "") =>
            LET allowed == RankRuleAllows(RankOf(h[s].cur), RankOf(h[s].status))
            IN  /\ allowed => UpdateAccepted(s)
                /\ ~allowed => UpdateRejected(s)

\* C1 witness: Dispatched -> Completed has been accepted and answered.
C1_Witness ==
    \E s \in Slots :
        /\ UpdateAccepted(s) /\ h[s].pc = "done" /\ h[s].resp.code = 200
        /\ h[s].cur = "dispatched" /\ h[s].status = "completed"

\* C2: whenever an update-status request is about to write the order back, the
\* status it writes is a legal transition from the status that is in the
\* store at that moment.
C2_WriteIsLegalFromStoredStatus ==
    \A s \in Slots :
        (h[s].op = "update" /\ h[s].pc = "write") =>
            RankRuleAllows(RankOf(orders[h[s].o.ID].Status), RankOf(h[s].o.Status))

\* The moves of the design's legal paths.
LegalMoves ==
    { <<"placed", "dispatched">>, <<"dispatched", "completed">>,
      <<"completed", "returned">>,
      <<"placed", "cancelled">>, <<"dispatched", "cancelled">> }

\* C3: with requests handled one at a time, an order enters the store as
\* Placed, every change of its stored status is a move of the legal paths,
\* and a Returned or Cancelled order keeps its status.
C3_StatusFollowsLegalPaths ==
    [][ \A id \in DOMAIN orders' :
            IF id \notin DOMAIN orders
            THEN orders'[id].Status = "placed"
            ELSE /\ orders'[id].Status # orders[id].Status =>
                        <<orders[id].Status, orders'[id].Status>> \in LegalMoves
                 /\ orders[id].Status \in {"returned", "cancelled"} =>
                        orders'[id].Status = orders[id].Status ]_vars

\* C3 witness: an order went all the way to Returned, and a later request to
\* cancel it has been answered.
C3_Witness ==
    \E s \in Slots :
        /\ h[s].op = "update" /\ h[s].pc = "done"
        /\ h[s].cur = "returned" /\ h[s].status = "cancelled"
        /\ h[s].orderId \in DOMAIN orders
        /\ orders[h[s].orderId].Status = "returned"

----------------------------------------------------------------------------
(* Timestamps of the status state machine: C5, C6.                         *)

\* C5: once an update-status request has been accepted and has written the
\* order back, the stored order's updatedAt is the time of that request.
C5_UpdatedAtIsRequestTime ==
    \A s \in Slots :
        (h[s].op = "update" /\ h[s].pc = "done" /\ h[s].wrote) =>
            orders[h[s].o.ID].UpdatedAt = h[s].at

\* C6: with requests handled one at a time, a stored order's dispatchedAt is
\* written by one kind of step only, the one that makes the order Dispatched,
\* which sets it to the current time; every other step (the placement, a
\* rejected request, a later transition) leaves it as it was, unset for a
\* new order.
C6_DispatchedAtSetOnce ==
    [][ \A id \in DOMAIN orders' :
            LET was == id \in DOMAIN orders
                before == IF was THEN orders[id].DispatchedAt ELSE 0
                enters == /\ orders'[id].Status = "dispatched"
                          /\ ~was \/ orders[id].Status # "dispatched"
            IN  IF enters
                THEN before = 0 /\ orders'[id].DispatchedAt = now /\ now > 0
                ELSE orders'[id].DispatchedAt = before ]_vars

\* C6 witness: an order dispatched earlier has since been completed, and a
\* repeated request to dispatch it has been rejected; its dispatchedAt is
\* still the earlier time.
C6_Witness ==
    \E s \in Slots :
        /\ h[s].op = "update" /\ h[s].pc = "done" /\ h[s].resp.code = 400
        /\ h[s].status = "dispatched" /\ h[s].cur = "completed"
        /\ orders[h[s].orderId].DispatchedAt > 0
        /\ orders[h[s].orderId].DispatchedAt < h[s].at - 1

----------------------------------------------------------------------------
(* Placement: C4, C7, C8, C9, C10.                                         *)

\* The placement of goroutine s was turned down by the existence-and-stock pass.
CheckRejected(s) ==
    /\ h[s].op = "place" /\ h[s].pc = "done"
    /\ h[s].resp.msg \in {"product with id: %v does not exist",
                          "product with id: %v does not have enough inventory"}

\* C4 (state part): a placement that has passed the existence-and-stock pass
\* found every product present and in sufficient quantity; one that the pass
\* turned down is answered with an error naming the item the pass stopped at,
\* whose product is missing, unreachable or short of the quantity asked, and
\* has written nothing to the store and made no set-quantity call.
C4_CheckPassState ==
    \A s \in Slots :
        /\ (h[s].op = "place" /\ h[s].pc = "price") =>
              \A k \in 1..Len(h[s].items) :
                  /\ h[s].items[k].ProductId \in Products
                  /\ stock[h[s].items[k].ProductId] >= h[s].items[k].Quantity
        /\ (h[s].op = "place" /\ h[s].pc = "check") =>
              ~h[s].wrote /\ h[s].nSet = 0
        /\ CheckRejected(s) =>
              LET item == h[s].items[h[s].i]
              IN  /\ h[s].resp.code >= 400
                  /\ h[s].resp.ref = item.ProductId
                  /\ \/ item.ProductId \notin Products
                     \/ h[s].resp.cause = "unavailable"
                     \/ stock[item.ProductId] < item.Quantity
                  /\ ~h[s].wrote /\ h[s].nSet = 0
                  /\ h[s].o.ID \notin DOMAIN orders \cup DOMAIN orderItems

\* C4: the state part, and every step of the existence-and-stock pass leaves
\* the store and the catalog's quantities as they were.
C4_CheckFailsWithoutMutation ==
    /\ []C4_CheckPassState
    /\ [][ (\E s \in Slots : h[s].op = "place" /\ h[s].pc = "check"
                              /\ h'[s] # h[s]) =>
                UNCHANGED <<orders, orderItems, stock>> ]_vars

\* C4 witness: the second item of a placement was short of inventory, after a
\* first item that passed.
C4_Witness ==
    \E s \in Slots :
        /\ CheckRejected(s) /\ h[s].i = 2
        /\ h[s].resp.msg = "product with id: %v does not have enough inventory"
        /\ h[s].resp.ref = "p1"

\* The placement of goroutine s ended on a failed set-quantity call.
AdjustFailed(slot) ==
    /\ slot.op = "place" /\ slot.pc = "done"
    /\ slot.resp.msg = "inventory for product with id: %v could not be updated"

\* C7 (state part): a placement whose set-quantity call failed is answered
\* with a 500 naming that item's product; its order is in the store with its
\* line items; and it made exactly one successful set-quantity call per
\* earlier item and none for a later one.
C7_AdjustFailureState ==
    \A s \in Slots :
        AdjustFailed(h[s]) =>
            /\ h[s].resp.code = 500
            /\ h[s].resp.ref = h[s].items[h[s].i].ProductId
            /\ h[s].o.ID \in DOMAIN orders
            /\ orders[h[s].o.ID].Status = "placed"
            /\ h[s].o.ID \in DOMAIN orderItems
            /\ Len(orderItems[h[s].o.ID]) = Len(h[s].items)
            /\ \A k \in 1..Len(h[s].items) :
                  /\ orderItems[h[s].o.ID][k].ProductId = h[s].items[k].ProductId
                  /\ orderItems[h[s].o.ID][k].ProductQuantity = h[s].items[k].Quantity
            /\ h[s].nSet = h[s].i - 1

\* C7: the state part, and the failing step itself changes neither the store
\* nor any quantity of the catalog (nothing is rolled back).
C7_AdjustFailureKeepsOrder ==
    /\ []C7_AdjustFailureState
    /\ [][ (\E s \in Slots : AdjustFailed(h'[s]) /\ ~AdjustFailed(h[s])) =>
                UNCHANGED <<orders, orderItems, stock>> ]_vars

\* C7 witness: the set-quantity call for the second of three items failed,
\* after the first item's quantity was set.
C7_Witness ==
    \E s \in Slots :
        /\ AdjustFailed(h[s]) /\ h[s].i = 2 /\ Len(h[s].items) = 3
        /\ stock[h[s].items[1].ProductId] < InitialStock[h[s].items[1].ProductId]
        /\ stock[h[s].items[3].ProductId] = InitialStock[h[s].items[3].ProductId]

RECURSIVE RawSum(_)
\* The sum of price x quantity over stored line items.
RawSum(its) ==
    IF its = << >> THEN 0
    ELSE Catalog[Head(its).ProductId].Price * Head(its).ProductQuantity + RawSum(Tail(its))

\* The number of stored line items whose category is "premium" in any letter case.
PremiumLines(its) ==
    Cardinality({k \in DOMAIN its :
                    Catalog[its[k].ProductId].Category \in {"premium", "Premium", "PREMIUM"}})

\* Orders stored together with their line items.
StoredOrders == DOMAIN orders \cap DOMAIN orderItems

\* C8: a stored order with at least 3 premium line items has discount 10 and
\* an amount of 90% of the sum of price x quantity over its line items; one
\* with 2 or fewer has discount 0 and the undiscounted sum.
C8_DiscountLaw ==
    \A id \in StoredOrders :
        LET its == orderItems[id]
        IN  IF PremiumLines(its) >= 3
            THEN orders[id].Discount = 10 /\ orders[id].Amount * 100 = 90 * RawSum(its)
            ELSE orders[id].Discount = 0 /\ orders[id].Amount = RawSum(its)

\* C8 witness: scenario B (three premium items at 10, 20 and 30: amount 54)
\* is in the store.
C8_Witness ==
    \E id \in StoredOrders :
        /\ Len(orderItems[id]) = 3 /\ PremiumLines(orderItems[id]) = 3
        /\ orders[id].Discount = 10 /\ orders[id].Amount = 54

\* Two entries of the list have the same product id up to letter case.
HasDuplicate(items) ==
    \E j, k \in DOMAIN items :
        j # k /\ ToLower(items[j].ProductId) = ToLower(items[k].ProductId)

\* C9 (state part): a placement whose list has a duplicate product id is
\* answered with a 400, having made no catalog call and no write.
C9_DuplicateState ==
    \A s \in Slots :
        (h[s].op = "place" /\ HasDuplicate(h[s].items)) =>
            /\ h[s].pc = "done" /\ h[s].resp.code = 400
            /\ h[s].nGet = 0 /\ h[s].nSet = 0 /\ ~h[s].wrote

\* C9: the state part, and the step that takes such a request changes
\* neither the store nor the catalog.
C9_DuplicateRejectedBeforeCatalog ==
    /\ []C9_DuplicateState
    /\ [][ (\E s \in Slots : h'[s] # h[s] /\ h'[s].op = "place"
                              /\ HasDuplicate(h'[s].items)) =>
                UNCHANGED <<orders, orderItems, stock, uuidSeq>> ]_vars

\* C9 witness: the list (p1, P1) has been rejected.
C9_Witness ==
    \E s \in Slots :
        /\ h[s].op = "place" /\ h[s].pc = "done" /\ h[s].resp.code = 400
        /\ Len(h[s].items) = 2
        /\ h[s].items[1].ProductId = "p1" /\ h[s].items[2].ProductId = "P1"

QuantityMessage == "product quantiy must be greater than 0 and less than equal to 10"

\* C10: a placement with a quantity outside 1..10 is rejected by validation
\* (a 400 before any catalog call); one whose quantities are all in 1..10 is
\* not answered with the quantity message; every stored line item has a
\* quantity in 1..10.
C10_QuantityBounds ==
    /\ \A s \in Slots :
          h[s].op = "place" =>
              IF \E k \in DOMAIN h[s].items : h[s].items[k].Quantity \notin 1..10
              THEN /\ h[s].pc = "done" /\ h[s].resp.code = 400
                   /\ h[s].nGet = 0 /\ ~h[s].wrote
              ELSE h[s].resp.msg # QuantityMessage
    /\ \A id \in DOMAIN orderItems :
          \A k \in DOMAIN orderItems[id] :
              orderItems[id][k].ProductQuantity \in 1..10

\* C10 witness: a line item of quantity 10 is in the store, and a request for
\* quantity 11 has just been rejected with the quantity message.
C10_Witness ==
    /\ \E id \in DOMAIN orderItems : orderItems[id][1].ProductQuantity = 10
    /\ \E s \in Slots :
          /\ h[s].op = "place" /\ h[s].pc = "done" /\ Len(h[s].items) = 1
          /\ h[s].items[1].Quantity = 11 /\ h[s].resp.msg = QuantityMessage

----------------------------------------------------------------------------
(* Failures of the catalog during placement: C11.                          *)

\* C11: a placement that ended because a catalog fetch failed with the
\* catalog unreachable or erroring is answered as an operational failure:
\* neither with the 400 of a validation rejection nor with the 404 of a
\* product that does not exist.
C11_DependencyFailureIsDistinct ==
    \A s \in Slots :
        (h[s].op = "place" /\ h[s].pc = "done" /\ h[s].resp.cause = "unavailable") =>
            h[s].resp.code \notin {400, 404}

----------------------------------------------------------------------------
(* What a stored order keeps: C12.                                         *)

\* C12: no step removes an order or its line items from the store, and no
\* step changes a stored order's id, amount, discount or createdAt, or its
\* line items.
C12_PlacedFieldsAreFrozen ==
    [][ /\ \A id \in DOMAIN orders :
              /\ id \in DOMAIN orders'
              /\ orders'[id].ID = orders[id].ID /\ orders[id].ID = id
              /\ orders'[id].Amount = orders[id].Amount
              /\ orders'[id].Discount = orders[id].Discount
              /\ orders'[id].CreatedAt = orders[id].CreatedAt
        /\ \A id \in DOMAIN orderItems :
              /\ id \in DOMAIN orderItems'
              /\ orderItems'[id] = orderItems[id] ]_vars

\* C12 witness: two orders are in the store with their line items, and the
\* status of one of them has been updated.
C12_Witness ==
    /\ Cardinality(DOMAIN orders) = 2 /\ DOMAIN orderItems = DOMAIN orders
    /\ \E id \in DOMAIN orders : orders[id].Status # "placed"

----------------------------------------------------------------------------
(* The store as other requests see it, and the update's response: C13, C14. *)

\* C13: while a get-order or update-status request is running, an order id
\* is in the order map exactly when it is in the line-item map.
C13_OrderAndItemsTogether ==
    (\E s \in Slots : h[s].op \in {"get", "update"} /\ h[s].pc # "done") =>
        DOMAIN orders = DOMAIN orderItems

\* C14: the body of an accepted update-status request is the view that
\* get-order builds from the stored order right after it: the same id,
\* amount, discount, status, timestamps and items.
C14_UpdateReturnsStoredView ==
    \A s \in Slots :
        (h[s].op = "update" /\ h[s].pc = "done" /\ h[s].resp.code = 200) =>
            h[s].resp.body = DetailsResponse(orders[h[s].orderId], ItemsOf(h[s].orderId))

----------------------------------------------------------------------------
(* Updating an order that is not stored: C15.                               *)

UnknownOrderUpdate(s) ==
    /\ h[s].op = "update" /\ h[s].pc = "read"
    /\ h[s].status \in Statuses
    /\ h[s].orderId \notin DOMAIN orders

\* C15: an update-status request with a recognized status for an id that is
\* not stored is answered 404 with that id in the message, and the step that
\* answers it leaves both maps as they were, so no entry appears for the id.
C15_UnknownOrderIsNotFound ==
    [][ \A s \in Slots :
          UnknownOrderUpdate(s) =>
              /\ orders' = orders /\ orderItems' = orderItems
              /\ \/ h'[s] = h[s]
                 \/ /\ h'[s].pc = "done" /\ ~h'[s].wrote
                    /\ h'[s].resp.code = 404
                    /\ h'[s].resp.msg = "order with id: %v does not exist"
                    /\ h'[s].resp.oid = h[s].orderId ]_vars

C15_Witness ==
    \E s \in Slots :
        /\ h[s].op = "update" /\ h[s].pc = "done" /\ h[s].status \in Statuses
        /\ h[s].resp.code = 404 /\ h[s].resp.oid = h[s].orderId
        /\ h[s].orderId \notin DOMAIN orders
        /\ orders # << >>

----------------------------------------------------------------------------
(* The order of the phases of one placement: C16.                           *)

\* The placement of slot s has passed validation and the check of every item,
\* and has not yet asked the catalog to set a quantity.
CheckedNotAdjusted(s) ==
    /\ h[s].op = "place"
    /\ Validate(h[s].items) = "ok"
    /\ \A k \in 1..Len(h[s].items) :
          /\ h[s].items[k].ProductId \in Products
          /\ stock[h[s].items[k].ProductId] >= h[s].items[k].Quantity
    /\ h[s].nGet >= Len(h[s].items)
    /\ h[s].nSet = 0

\* The placement of slot s has stored its order and its line items.
Persisted(s) ==
    /\ h[s].op = "place" /\ h[s].wrote
    /\ h[s].o.ID \in DOMAIN orders /\ h[s].o.ID \in DOMAIN orderItems
    /\ orderItems[h[s].o.ID] = h[s].oItems

\* C16: with requests served one at a time, an order id enters the order map
\* only in a step of a placement that is valid, whose every item exists with
\* enough stock and that has set no quantity yet; and a catalog quantity
\* changes only in a step of a placement whose order and items are stored.
C16_PhasesInOrder ==
    [][ /\ \A id \in DOMAIN orders' \ DOMAIN orders :
              \E s \in Slots : h[s].o.ID = id /\ CheckedNotAdjusted(s)
        /\ stock' # stock =>
              \E s \in Slots : h[s].pc = "adjust_set" /\ h'[s].nSet = h[s].nSet + 1
                               /\ Persisted(s) ]_vars

C16_Witness ==
    \E s \in Slots :
        /\ h[s].op = "place" /\ h[s].pc = "done" /\ h[s].resp.code = 200
        /\ Len(h[s].items) >= 2 /\ h[s].nSet = Len(h[s].items)
        /\ h[s].o.ID \in DOMAIN orders

----------------------------------------------------------------------------
(* A catalog that does not answer: C17.                                     *)

\* C17: a placement that has not answered yet can always take a step towards
\* its answer, also while the catalog call it waits for does not return.
C17_PlacementNeverBlocks ==
    \A s \in Slots :
        (h[s].op = "place" /\ h[s].pc # "done") => ENABLED Step(s)

----------------------------------------------------------------------------
(* Inventory under concurrent placements and failed updates: C18, C19, C20. *)

\* C18: no catalog quantity is ever below zero.
C18_StockNeverNegative ==
    \A p \in Products : stock[p] >= 0

\* C19: an update-status request that answered with an error has not written
\* the order map.
C19_FailedUpdateWritesNothing ==
    \A s \in Slots :
        (h[s].op = "update" /\ h[s].pc = "done" /\ h[s].resp.code # 200) => ~h[s].wrote

RECURSIVE QuantityOrdered(_, _)
QuantityOrdered(its, p) ==
    IF its = << >> THEN 0
    ELSE (IF Head(its).ProductId = p THEN Head(its).Quantity ELSE 0)
         + QuantityOrdered(Tail(its), p)

\* Both goroutines have answered a placement with 200, and theirs are the
\* only two orders ever created.
TwoPlacementsSucceeded ==
    /\ \A s \in Slots : h[s].op = "place" /\ h[s].pc = "done" /\ h[s].resp.code = 200
    /\ h["h1"].o.ID # h["h2"].o.ID
    /\ DOMAIN orders = {h[s].o.ID : s \in Slots}
    /\ DOMAIN orders = 1..uuidSeq

\* The quantity the two placements ordered of product p.
OrderedOf(p) ==
    QuantityOrdered(h["h1"].items, p) + QuantityOrdered(h["h2"].items, p)

\* C20: when two placements have both succeeded, together ordering no more
\* of any product than the catalog had, and nothing else has changed the
\* catalog, every product's quantity is its initial quantity minus the
\* quantities the two placements ordered of it.
C20_NoDecrementLost ==
    (TwoPlacementsSucceeded /\ \A p \in Products : OrderedOf(p) <= InitialStock[p]) =>
        \A p \in Products :
            stock[p] = InitialStock[p] - QuantityOrdered(h["h1"].items, p)
                                       - QuantityOrdered(h["h2"].items, p)

====
